---- MODULE Spec2Model ----
(***************************************************************************)
(* Model of backend/routers/gemini/idealist_to_geo.py: the request handler *)
(* convert_idealist_to_geo, which runs the volunteering search, asks       *)
(* Gemini for coordinates in a bounded retry loop, parses the reply and    *)
(* attaches the links to the parsed locations.                             *)
(*                                                                         *)
(* One handler invocation is a request r.  Its local variables are the     *)
(* model's variables, indexed by request; the handler is cut into steps at *)
(* the calls of its collaborators (the link source, the module imports,    *)
(* generate_response, the parser, add_links_to_locations).                 *)
(***************************************************************************)
EXTENDS Integers, Sequences, FiniteSets, TLC

\* ------------------------------------------------------------------ bounds
NumReqs == 2
MaxRetriesBound == 3
MaxLinks == 2
MaxParsed == 2

Reqs == 1..NumReqs

\* ------------------------------------------------- Python values and idiom
\* None, where the other values of the variable are strings.
PyNone == "<None>"
\* A keyword argument that the call does not pass.
NotPassed == "<not passed>"

\* bool(x) of an Optional[str].
Truthy(x) == x # PyNone /\ x # ""

\* a or b, on Optional[str].
PyOr(a, b) == IF Truthy(a) THEN a ELSE b

\* Optional[list]: None, or a list.
NoneList == [isNone |-> TRUE, items |-> <<>>]
SomeList(s) == [isNone |-> FALSE, items |-> s]

\* bool(x) of an Optional[list].
TruthyList(x) == ~x.isNone /\ x.items # <<>>

\* a or b, on Optional[list].
PyOrList(a, b) == IF TruthyList(a) THEN a ELSE b

\* int(s): the integers the model's environment can spell.
IntDomain == (0 - MaxRetriesBound)..MaxRetriesBound
IsIntLiteral(s) == \E n \in IntDomain : ToString(n) = s
PyInt(s) == CHOOSE n \in IntDomain : ToString(n) = s

\* An exception object: its class and, for HTTPException, its fields.
NoExc == [type |-> "", status_code |-> 0, detail |-> ""]
HTTPException(code, text) ==
    [type |-> "HTTPException", status_code |-> code, detail |-> text]
OtherException(cls) == [type |-> cls, status_code |-> 0, detail |-> ""]

\* ----------------------------------------------------- program constants
BadGateway == 502
TransportBackoffTenths == 8
ParseBackoffTenths == 6
DefaultMaxRetries == "3"
TransportDetail == "Upstream Gemini call failed repeatedly."
UnparsableDetail == "Failed to obtain parsable response from Gemini."

\* --------------------------------------------------------- input domains
LinkOf(i) == "https://a.example/" \o ToString(i)

\* The link lists the link source can answer with: the first n links, in
\* order or reversed.
LinkLists ==
    {[i \in 1..n |-> LinkOf(i)] : n \in 0..MaxLinks}
        \cup {[i \in 1..n |-> LinkOf(n + 1 - i)] : n \in 0..MaxLinks}

\* search_result.dict(): its "links" entry (None when the key is missing) and
\* its "idealist_json" entry, which is missing, None or a dict with a "links"
\* entry of its own.
OptionalLinkLists == {NoneList} \cup {SomeList(l) : l \in LinkLists}
SearchDicts ==
    [links : OptionalLinkLists,
     idealist_json : {"missing", "None"},
     idealist_links : {NoneList}]
        \cup [links : OptionalLinkLists,
              idealist_json : {"dict"},
              idealist_links : OptionalLinkLists]

\* What search_volunteer_links can raise.
SearchHTTPErrors == {HTTPException(404, "No links found"),
                     HTTPException(503, "Search unavailable")}
SearchOtherErrors == {OtherException("RuntimeError")}

\* A parsed location, before and after the links are attached.
NoKey == "<no key>"
ParsedRecord(g) == [geo |-> g, link |-> NoKey, name |-> NoKey]
GeoLists ==
    {[i \in 1..n |-> ParsedRecord(i)] : n \in 0..MaxParsed}
        \cup {[i \in 1..n |-> ParsedRecord(n + 1 - i)] : n \in 0..MaxParsed}

\* The JSON text of a list of parsed locations.
RECURSIVE JoinComma(_)
JoinComma(s) ==
    IF s = <<>> THEN ""
    ELSE IF Len(s) = 1 THEN s[1]
    ELSE s[1] \o ", " \o JoinComma(Tail(s))

GeoText(rec) ==
    "{\"latlon\": [" \o ToString(rec.geo) \o ".5, " \o ToString(rec.geo)
        \o ".25], \"country\": \"country" \o ToString(rec.geo) \o "\"}"
ArrayText(recs) ==
    "[" \o JoinComma([i \in 1..Len(recs) |-> GeoText(recs[i])]) \o "]"

\* What generate_response can return: a str, or an object that is not one.
StrValue(s) == [isStr |-> TRUE, repr |-> s]
NonStrValue(s) == [isStr |-> FALSE, repr |-> s]
Responses ==
    {StrValue(ArrayText(recs)) : recs \in GeoLists}
        \cup {StrValue("ERROR"), NonStrValue("None")}

\* gemini_text if isinstance(gemini_text, str) else str(gemini_text)
ToStr(v) == v.repr

\* ----------------------------------------------------------------- state
VARIABLES
    environ,              \* os.environ: the three GEMINI_* entries
    pc,                   \* each request's position in the handler
    country, limit, model,          \* the query parameters
    links_list, system_prompt,
    MAX_RETRIES, STRONG_MODEL, FAST_MODEL,
    attempt, model_to_use, gemini_text_str, last_response_text,
    parsed_locations,
    result,               \* what the handler returned or raised
    search_calls,         \* the calls of search_volunteer_links: their arguments
    import_outcome,       \* how the imports of the two gemini modules ended
    gen_calls,            \* number of generate_response calls
    gen_raised,           \* number of those that raised
    gen_kind,             \* how the last one ended
    last_call,            \* the arguments of the last one
    parse_calls,          \* number of parse_fn calls
    parse_kind,           \* how the last one ended
    slept,                \* the time.sleep calls, in tenths of a second
    recon_calls           \* the calls of add_links_to_locations: their arguments

paramVars == <<country, limit, model>>
localVars == <<links_list, system_prompt, MAX_RETRIES, STRONG_MODEL, FAST_MODEL,
               attempt, model_to_use, gemini_text_str, last_response_text,
               parsed_locations>>
loopVars == <<attempt, model_to_use, gemini_text_str, last_response_text,
              parsed_locations>>
configVars == <<MAX_RETRIES, STRONG_MODEL, FAST_MODEL>>
genVars == <<gen_calls, gen_raised, gen_kind, last_call>>
parseVars == <<parse_calls, parse_kind>>
vars == <<environ, pc, paramVars, localVars, result, search_calls, import_outcome, genVars,
          parseVars, slept, recon_calls>>

\* ------------------------------------------------------- the prompt builder
\* json.dumps(links_list, ensure_ascii=False), for links that need no escape.
JsonDumps(links) ==
    "[" \o JoinComma([i \in 1..Len(links) |-> "\"" \o links[i] \o "\""]) \o "]"

PromptHead ==
    "You are given a JSON array of URLs (links) pointing to volunteer opportunity pages.\n"
    \o "For each URL produce a JSON object with EXACTLY these two keys:\n"
    \o "  - \"latlon\": an array [lat, lon] where lat and lon are parseable floats (latitude first),\n"
    \o "  - \"country\": the country for that lat/lon, as a lower-case English name (for example: 'japan').\n\n"
    \o "IMPORTANT:\n"
    \o " - Output MUST be a single valid JSON array and NOTHING else (no markdown or commentary).\n"
    \o " - Ensure lat and lon are parseable floats and in the order [latitude, longitude].\n"
    \o " - Make sure that country is a full English name in lower case (no abbreviations).\n"
    \o " - Return entries in the same order as the input links array. Omit any link if you cannot find coordinates.\n\n"
    \o "EXAMPLE OUTPUT FORMAT:\n"
    \o "[\n"
    \o "  {\"latlon\": [35.6897, 139.6922], \"country\": \"japan\"},\n"
    \o "  {\"latlon\": [-1.2833, 36.8167], \"country\": \"kenya\"}\n"
    \o "]\n\n"
    \o "Input links array:\n"
PromptTail == "\n\n" \o "Reply now with ONLY the JSON array (no other text)."

SystemPrompt(links) == PromptHead \o JsonDumps(links) \o PromptTail

\* links_list = search_dict.get("links")
\*              or search_dict.get("idealist_json", {}).get("links") or []
LinksOf(search_dict) ==
    PyOrList(PyOrList(search_dict.links, search_dict.idealist_links),
             SomeList(<<>>)).items

\* The second operand is evaluated when "links" is falsy, and .get on an
\* "idealist_json" that is None raises AttributeError.
LinksOfRaises(search_dict) ==
    ~TruthyList(search_dict.links) /\ search_dict.idealist_json = "None"

\* ------------------------------------------------------------ the handler
\* os.environ.get(key, default)
EnvGet(key, default) == IF environ[key] = PyNone THEN default ELSE environ[key]

Returned(line, value) ==
    [kind |-> "return", line |-> line, exc |-> NoExc, value |-> value]
Raised(line, exc) ==
    [kind |-> "raise", line |-> line, exc |-> exc, value |-> <<>>]
Pending == [kind |-> "pending", line |-> 0, exc |-> NoExc, value |-> <<>>]

\* OnSearchError without the except HTTPException clause.
OnSearchErrorSwallowed(exc) == Returned(77, <<>>)

\* The handlers of the try around the search: an HTTPException is raised
\* again, any other Exception is logged and the handler returns [].
OnSearchError(exc) ==
    IF exc.type = "HTTPException" THEN Raised(74, exc) ELSE Returned(77, <<>>)

\* search_volunteer_links raises.
SearchFails(r) ==
    /\ pc[r] = "search"
    /\ \E exc \in SearchHTTPErrors \cup SearchOtherErrors :
          /\ result' = [result EXCEPT ![r] = OnSearchError(exc)]
          /\ search_calls' = [search_calls EXCEPT ![r] =
                 Append(@, [country |-> country[r], limit |-> limit[r],
                            raised |-> exc])]
    /\ pc' = [pc EXCEPT ![r] = "done"]
    /\ UNCHANGED <<environ, import_outcome, paramVars, localVars, genVars, parseVars, slept,
                   recon_calls>>

\* SearchReturns with the country named at the end of the system prompt.
SearchReturnsNamingCountry(r) ==
    /\ pc[r] = "search"
    /\ \E search_dict \in SearchDicts :
          IF LinksOfRaises(search_dict)
          THEN /\ result' = [result EXCEPT ![r] =
                      Raised(79, OtherException("AttributeError"))]
               /\ pc' = [pc EXCEPT ![r] = "done"]
               /\ UNCHANGED <<links_list, system_prompt>>
          ELSE /\ links_list' = [links_list EXCEPT ![r] = LinksOf(search_dict)]
               /\ system_prompt' = [system_prompt EXCEPT ![r] =
                      SystemPrompt(LinksOf(search_dict)) \o country[r]]
               /\ pc' = [pc EXCEPT ![r] = "config"]
               /\ UNCHANGED result
    /\ search_calls' = [search_calls EXCEPT ![r] =
           Append(@, [country |-> country[r], limit |-> limit[r],
                      raised |-> NoExc])]
    /\ UNCHANGED <<environ, import_outcome, paramVars, configVars, loopVars, genVars,
                   parseVars, slept, recon_calls>>

\* search_volunteer_links returns; the links are read from its result and the
\* system prompt is built from them.
SearchReturns(r) ==
    /\ pc[r] = "search"
    /\ \E search_dict \in SearchDicts :
          IF LinksOfRaises(search_dict)
          THEN /\ result' = [result EXCEPT ![r] =
                      Raised(79, OtherException("AttributeError"))]
               /\ pc' = [pc EXCEPT ![r] = "done"]
               /\ UNCHANGED <<links_list, system_prompt>>
          ELSE /\ links_list' = [links_list EXCEPT ![r] = LinksOf(search_dict)]
               /\ system_prompt' = [system_prompt EXCEPT ![r] =
                      SystemPrompt(LinksOf(search_dict))]
               /\ pc' = [pc EXCEPT ![r] = "config"]
               /\ UNCHANGED result
    /\ search_calls' = [search_calls EXCEPT ![r] =
           Append(@, [country |-> country[r], limit |-> limit[r],
                      raised |-> NoExc])]
    /\ UNCHANGED <<environ, import_outcome, paramVars, configVars, loopVars, genVars,
                   parseVars, slept, recon_calls>>

\* MAX_RETRIES, STRONG_MODEL and FAST_MODEL are read from the environment;
\* int() raises ValueError on a value that is no integer literal.
ReadConfig(r) ==
    /\ pc[r] = "config"
    /\ IF IsIntLiteral(EnvGet("GEMINI_MAX_RETRIES", DefaultMaxRetries))
       THEN /\ MAX_RETRIES' = [MAX_RETRIES EXCEPT ![r] =
                   PyInt(EnvGet("GEMINI_MAX_RETRIES", DefaultMaxRetries))]
            /\ STRONG_MODEL' = [STRONG_MODEL EXCEPT ![r] =
                   EnvGet("GEMINI_STRONG_MODEL", PyNone)]
            /\ FAST_MODEL' = [FAST_MODEL EXCEPT ![r] =
                   EnvGet("GEMINI_FAST_MODEL", PyNone)]
            /\ pc' = [pc EXCEPT ![r] = "import"]
            /\ UNCHANGED result
       ELSE /\ result' = [result EXCEPT ![r] =
                   Raised(104, OtherException("ValueError"))]
            /\ pc' = [pc EXCEPT ![r] = "done"]
            /\ UNCHANGED configVars
    /\ UNCHANGED <<environ, import_outcome, paramVars, links_list, system_prompt, loopVars,
                   search_calls, genVars, parseVars, slept, recon_calls>>

\* How the imports of gemini.call_gemini and of the parser can end.
ImportOutcomes == {"ok", "cg_exception", "cg_system_exit",
                   "generate_not_callable", "parser_import_fails"}

\* OnImport with the two guarded failures raised on instead of answered with [].
OnImportAllRaised(outcome) ==
    CASE outcome = "cg_exception" -> Raised(109, OtherException("ImportError"))
      [] outcome = "cg_system_exit" -> Raised(109, OtherException("SystemExit"))
      [] outcome = "generate_not_callable" ->
             Raised(117, OtherException("AttributeError"))
      [] outcome = "parser_import_fails" ->
             Raised(119, OtherException("ImportError"))
      [] OTHER -> Pending

\* What the handler does on each: an Exception of the call_gemini import and
\* a generate_response that is not callable make it return []; SystemExit is
\* no Exception and passes through; the parser import is not guarded.
OnImport(outcome) ==
    CASE outcome = "cg_exception" -> Returned(112, <<>>)
      [] outcome = "cg_system_exit" -> Raised(109, OtherException("SystemExit"))
      [] outcome = "generate_not_callable" -> Returned(117, <<>>)
      [] outcome = "parser_import_fails" ->
             Raised(119, OtherException("ImportError"))
      [] OTHER -> Pending

ImportModules(r) ==
    /\ pc[r] = "import"
    /\ \E outcome \in ImportOutcomes :
          /\ import_outcome' = [import_outcome EXCEPT ![r] = outcome]
          /\ result' = [result EXCEPT ![r] = OnImport(outcome)]
          /\ pc' = [pc EXCEPT ![r] = IF outcome = "ok" THEN "loop" ELSE "done"]
    /\ attempt' = [attempt EXCEPT ![r] = 0]
    /\ last_response_text' = [last_response_text EXCEPT ![r] = PyNone]
    /\ parsed_locations' = [parsed_locations EXCEPT ![r] = NoneList]
    /\ UNCHANGED <<environ, paramVars, links_list, system_prompt, configVars,
                   model_to_use, gemini_text_str, search_calls, genVars,
                   parseVars, slept, recon_calls>>

\* ------------------------------------------------------- the attempt loop
\* LoopContinues with <= for <: one attempt more than the budget.
LoopContinuesInclusive(att, maxRetries) == att <= maxRetries

\* while attempt < MAX_RETRIES
LoopContinues(att, maxRetries) == att < maxRetries

\* ChooseModel without the first-attempt case: the strong model is used
\* from the first attempt on.
ChooseModelEscalatingAtOnce(att, explicit, strong, fast) ==
    PyOr(PyOr(explicit, strong), fast)

\* The model of an attempt: the query parameter, else the fast model on the
\* first attempt and the strong model (else the fast one) on the later ones.
ChooseModel(att, explicit, strong, fast) ==
    IF att = 1 THEN PyOr(explicit, fast)
    ELSE PyOr(PyOr(explicit, strong), fast)

\* The model keyword is passed only when model_to_use is truthy.
ModelArgument(m) == IF Truthy(m) THEN m ELSE NotPassed

\* RetryAfterError with <= for <: the last attempt's failure is retried too.
RetryAfterErrorInclusive(att, maxRetries) == att <= maxRetries

\* After a call that raised: another attempt follows iff attempt < MAX_RETRIES.
RetryAfterError(att, maxRetries) == att < maxRetries

\* Accepted asking for more than one location.
AcceptedSeveral(parsed) == TruthyList(parsed) /\ Len(parsed.items) > 1

\* if parsed_locations: break
Accepted(parsed) == TruthyList(parsed)

\* After an empty parse: the handler sleeps iff attempt < MAX_RETRIES.
SleepAfterEmpty(att, maxRetries) == att < maxRetries

\* TransportBackoff that does not grow with the attempt.
TransportBackoffFlat(att) == TransportBackoffTenths

\* time.sleep(0.8 * attempt), in tenths of a second.
TransportBackoff(att) == TransportBackoffTenths * att

\* ParseBackoff with the factor of the transport backoff.
ParseBackoffAsTransport(att) == TransportBackoffTenths * att

\* time.sleep(0.6 * attempt), in tenths of a second.
ParseBackoff(att) == ParseBackoffTenths * att

\* LoopStep handing the last response to the next call as its user prompt.
LoopStepPromptingLastResponse(r) ==
    /\ pc[r] = "loop"
    /\ LoopContinues(attempt[r], MAX_RETRIES[r])
    /\ attempt' = [attempt EXCEPT ![r] = @ + 1]
    /\ model_to_use' = [model_to_use EXCEPT ![r] =
           ChooseModel(attempt[r] + 1, model[r], STRONG_MODEL[r], FAST_MODEL[r])]
    /\ gen_calls' = [gen_calls EXCEPT ![r] = @ + 1]
    /\ last_call' = [last_call EXCEPT ![r] =
           [system_prompt |-> system_prompt[r],
            prompt |-> IF last_response_text[r] = PyNone THEN ""
                       ELSE last_response_text[r],
            model |-> ModelArgument(model_to_use'[r])]]
    /\ pc' = [pc EXCEPT ![r] = "call"]
    /\ UNCHANGED <<environ, import_outcome, paramVars, links_list, system_prompt,
                   configVars, gemini_text_str, last_response_text,
                   parsed_locations, result, search_calls, gen_raised,
                   gen_kind, parseVars, slept, recon_calls>>

\* LoopStep counting the attempts of all requests in one counter.
LoopStepSharedAttempt(r) ==
    /\ pc[r] = "loop"
    /\ LoopContinues(attempt[r], MAX_RETRIES[r])
    /\ attempt' = [o \in Reqs |-> attempt[o] + 1]
    /\ model_to_use' = [model_to_use EXCEPT ![r] =
           ChooseModel(attempt[r] + 1, model[r], STRONG_MODEL[r], FAST_MODEL[r])]
    /\ gen_calls' = [gen_calls EXCEPT ![r] = @ + 1]
    /\ last_call' = [last_call EXCEPT ![r] =
           [system_prompt |-> system_prompt[r], prompt |-> "",
            model |-> ModelArgument(model_to_use'[r])]]
    /\ pc' = [pc EXCEPT ![r] = "call"]
    /\ UNCHANGED <<environ, import_outcome, paramVars, links_list, system_prompt,
                   configVars, gemini_text_str, last_response_text,
                   parsed_locations, result, search_calls, gen_raised,
                   gen_kind, parseVars, slept, recon_calls>>

\* The head of an iteration up to the call of generate_response: the handler
\* then waits in the call, and other requests run meanwhile.
LoopStep(r) ==
    /\ pc[r] = "loop"
    /\ LoopContinues(attempt[r], MAX_RETRIES[r])
    /\ attempt' = [attempt EXCEPT ![r] = @ + 1]
    /\ model_to_use' = [model_to_use EXCEPT ![r] =
           ChooseModel(attempt[r] + 1, model[r], STRONG_MODEL[r], FAST_MODEL[r])]
    /\ gen_calls' = [gen_calls EXCEPT ![r] = @ + 1]
    /\ last_call' = [last_call EXCEPT ![r] =
           [system_prompt |-> system_prompt[r], prompt |-> "",
            model |-> ModelArgument(model_to_use'[r])]]
    /\ pc' = [pc EXCEPT ![r] = "call"]
    /\ UNCHANGED <<environ, import_outcome, paramVars, links_list, system_prompt,
                   configVars, gemini_text_str, last_response_text,
                   parsed_locations, result, search_calls, gen_raised,
                   gen_kind, parseVars, slept, recon_calls>>

\* The call in flight raises: the handler backs off and goes on to the next
\* attempt, or raises the 502 when this was the last one.
AttemptRaises(r) ==
    /\ pc[r] = "call"
    /\ gen_raised' = [gen_raised EXCEPT ![r] = @ + 1]
    /\ gen_kind' = [gen_kind EXCEPT ![r] = "raised"]
    /\ IF RetryAfterError(attempt[r], MAX_RETRIES[r])
       THEN /\ slept' = [slept EXCEPT ![r] =
                   Append(@, TransportBackoff(attempt[r]))]
            /\ pc' = [pc EXCEPT ![r] = "loop"]
            /\ UNCHANGED result
       ELSE /\ result' = [result EXCEPT ![r] =
                   Raised(147, HTTPException(BadGateway, TransportDetail))]
            /\ pc' = [pc EXCEPT ![r] = "done"]
            /\ UNCHANGED slept
    /\ UNCHANGED <<environ, import_outcome, paramVars, links_list, system_prompt, configVars,
                   attempt, model_to_use, gemini_text_str, last_response_text,
                   parsed_locations, search_calls, gen_calls, last_call,
                   parseVars, recon_calls>>

\* The call in flight returns: its value is kept as a str.
AttemptReturns(r) ==
    /\ pc[r] = "call"
    /\ \E gemini_text \in Responses :
          /\ gemini_text_str' = [gemini_text_str EXCEPT ![r] = ToStr(gemini_text)]
          /\ last_response_text' = [last_response_text EXCEPT ![r] =
                 ToStr(gemini_text)]
    /\ gen_kind' = [gen_kind EXCEPT ![r] = "returned"]
    /\ pc' = [pc EXCEPT ![r] = "parse"]
    /\ UNCHANGED <<environ, import_outcome, paramVars, links_list, system_prompt, configVars,
                   attempt, model_to_use, parsed_locations, result,
                   search_calls, gen_raised, gen_calls, last_call,
                   parseVars, slept, recon_calls>>

\* parse_gemini_latlon_list on a text: the locations of a JSON array of
\* locations; on any other text it raises, returns None or returns [].
ParseOutcomes(text) ==
    IF \E recs \in GeoLists : ArrayText(recs) = text
    THEN {[kind |-> "list", items |-> recs] :
              recs \in {x \in GeoLists : ArrayText(x) = text}}
    ELSE {[kind |-> "raised", items |-> <<>>],
          [kind |-> "none", items |-> <<>>],
          [kind |-> "list", items |-> <<>>]}

\* ParsedValue without the replacement of None and of an exception by [].
ParsedValueKeepNone(outcome) ==
    IF outcome.kind = "list" THEN SomeList(outcome.items) ELSE NoneList

\* parsed_locations after the try around parse_fn: None and an exception
\* both become [].
ParsedValue(outcome) ==
    IF outcome.kind = "list" THEN SomeList(outcome.items) ELSE SomeList(<<>>)

\* The parse of an attempt's text and the end of the iteration.
Parse(r) ==
    /\ pc[r] = "parse"
    /\ \E outcome \in ParseOutcomes(gemini_text_str[r]) :
          /\ parsed_locations' = [parsed_locations EXCEPT ![r] =
                 ParsedValue(outcome)]
          /\ parse_kind' = [parse_kind EXCEPT ![r] = outcome.kind]
    /\ parse_calls' = [parse_calls EXCEPT ![r] = @ + 1]
    /\ IF Accepted(parsed_locations'[r])
       THEN /\ pc' = [pc EXCEPT ![r] = "after"]
            /\ UNCHANGED slept
       ELSE /\ pc' = [pc EXCEPT ![r] = "loop"]
            /\ slept' = [slept EXCEPT ![r] =
                   IF SleepAfterEmpty(attempt[r], MAX_RETRIES[r])
                   THEN Append(@, ParseBackoff(attempt[r]))
                   ELSE @]
    /\ UNCHANGED <<environ, import_outcome, paramVars, links_list, system_prompt, configVars,
                   attempt, model_to_use, gemini_text_str, last_response_text,
                   result, search_calls, genVars, recon_calls>>

\* ---------------------------------------------------------- after the loop
\* LoopLeft that does not wait for the parse of the last response.
LoopLeftBeforeParse(r) ==
    \/ pc[r] \in {"after", "parse"}
    \/ pc[r] = "loop" /\ ~LoopContinues(attempt[r], MAX_RETRIES[r])

\* The loop is left by the break or by its condition.
LoopLeft(r) ==
    \/ pc[r] = "after"
    \/ pc[r] = "loop" /\ ~LoopContinues(attempt[r], MAX_RETRIES[r])

\* NothingParsed taking an empty list for None.
NothingParsedOrEmpty(parsed) == ~TruthyList(parsed)

\* if parsed_locations is None
NothingParsed(parsed) == parsed.isNone

\* parsed_locations is None: the 502 after the loop.
RaiseUnparsable(r) ==
    /\ LoopLeft(r)
    /\ NothingParsed(parsed_locations[r])
    /\ result' = [result EXCEPT ![r] =
           Raised(168, HTTPException(BadGateway, UnparsableDetail))]
    /\ pc' = [pc EXCEPT ![r] = "done"]
    /\ UNCHANGED <<environ, import_outcome, paramVars, localVars, search_calls, genVars,
                   parseVars, slept, recon_calls>>

\* add_links_to_locations: each parsed location, by position, gets its link
\* and the name read from the link; locations beyond the links are dropped.
NameOf(link) == "name of " \o link
Min(a, b) == IF a < b THEN a ELSE b
AddLinksToLocations(parsed, links) ==
    [i \in 1..Min(Len(parsed), Len(links)) |->
        [geo |-> parsed[i].geo, link |-> links[i], name |-> NameOf(links[i])]]

\* Fallback that gives up the parsed locations.
FallbackEmpty(parsed) == <<>>

\* final_locations = parsed_locations or []
Fallback(parsed) == PyOrList(parsed, SomeList(<<>>)).items

ReconcileReturns(r) ==
    /\ LoopLeft(r)
    /\ ~NothingParsed(parsed_locations[r])
    /\ recon_calls' = [recon_calls EXCEPT ![r] =
           Append(@, [parsed |-> parsed_locations[r].items,
                      links |-> links_list[r], raised |-> FALSE])]
    /\ result' = [result EXCEPT ![r] =
           Returned(177, AddLinksToLocations(parsed_locations[r].items,
                                             links_list[r]))]
    /\ pc' = [pc EXCEPT ![r] = "done"]
    /\ UNCHANGED <<environ, import_outcome, paramVars, localVars, search_calls, genVars,
                   parseVars, slept>>

\* add_links_to_locations raises: the parsed locations are returned.
ReconcileRaises(r) ==
    /\ LoopLeft(r)
    /\ ~NothingParsed(parsed_locations[r])
    /\ recon_calls' = [recon_calls EXCEPT ![r] =
           Append(@, [parsed |-> parsed_locations[r].items,
                      links |-> links_list[r], raised |-> TRUE])]
    /\ result' = [result EXCEPT ![r] =
           Returned(177, Fallback(parsed_locations[r]))]
    /\ pc' = [pc EXCEPT ![r] = "done"]
    /\ UNCHANGED <<environ, import_outcome, paramVars, localVars, search_calls, genVars,
                   parseVars, slept>>

\* ------------------------------------------------------- the specification
\* The values GEMINI_MAX_RETRIES can have: unset, integer literals, a word.
EnvRetryValues ==
    {PyNone, "abc"} \cup {ToString(n) : n \in (0 - 1)..MaxRetriesBound}
EnvStrongValues == {PyNone, "", "gemini-strong"}
EnvFastValues == {PyNone, "gemini-fast"}
Environments ==
    [GEMINI_MAX_RETRIES : EnvRetryValues,
     GEMINI_STRONG_MODEL : EnvStrongValues,
     GEMINI_FAST_MODEL : EnvFastValues]

\* The query parameters: limit 0 stands for None (a given limit is >= 1).
QueryParams ==
    {[country |-> "japan", limit |-> 0], [country |-> "kenya", limit |-> 1]}
QueryModels == {PyNone, "", "gemini-explicit"}

NoCall == [system_prompt |-> "", prompt |-> "", model |-> NotPassed]

\* The requests in `started` are at the handler's first line; the others
\* never run.
InitWith(started) ==
    /\ environ \in Environments
    /\ pc = [r \in Reqs |-> IF r \in started THEN "search" ELSE "absent"]
    /\ \E q \in [started -> QueryParams], m \in [started -> QueryModels] :
          /\ country = [r \in Reqs |-> IF r \in started THEN q[r].country ELSE ""]
          /\ limit = [r \in Reqs |-> IF r \in started THEN q[r].limit ELSE 0]
          /\ model = [r \in Reqs |-> IF r \in started THEN m[r] ELSE PyNone]
    /\ links_list = [r \in Reqs |-> <<>>]
    /\ system_prompt = [r \in Reqs |-> ""]
    /\ MAX_RETRIES = [r \in Reqs |-> 0]
    /\ STRONG_MODEL = [r \in Reqs |-> PyNone]
    /\ FAST_MODEL = [r \in Reqs |-> PyNone]
    /\ attempt = [r \in Reqs |-> 0]
    /\ model_to_use = [r \in Reqs |-> PyNone]
    /\ gemini_text_str = [r \in Reqs |-> PyNone]
    /\ last_response_text = [r \in Reqs |-> PyNone]
    /\ parsed_locations = [r \in Reqs |-> NoneList]
    /\ result = [r \in Reqs |-> Pending]
    /\ search_calls = [r \in Reqs |-> <<>>]
    /\ import_outcome = [r \in Reqs |-> "none"]
    /\ gen_calls = [r \in Reqs |-> 0]
    /\ gen_raised = [r \in Reqs |-> 0]
    /\ gen_kind = [r \in Reqs |-> "none"]
    /\ last_call = [r \in Reqs |-> NoCall]
    /\ parse_calls = [r \in Reqs |-> 0]
    /\ parse_kind = [r \in Reqs |-> "none"]
    /\ slept = [r \in Reqs |-> <<>>]
    /\ recon_calls = [r \in Reqs |-> <<>>]

\* One request.
Init == InitWith({1})

Next ==
    \E r \in Reqs :
        \/ SearchFails(r)
        \/ SearchReturns(r)
        \/ ReadConfig(r)
        \/ ImportModules(r)
        \/ LoopStep(r)
        \/ AttemptRaises(r)
        \/ AttemptReturns(r)
        \/ Parse(r)
        \/ RaiseUnparsable(r)
        \/ ReconcileReturns(r)
        \/ ReconcileRaises(r)

Spec == Init /\ [][Next]_vars

\* One request, with no model named by the query or the environment (the
\* models do not guide the control flow), whose every collaborator call
\* returns or raises and whose sleeps end: a step that can be taken is taken.
InitFair ==
    /\ Init
    /\ model[1] = PyNone
    /\ environ.GEMINI_STRONG_MODEL = PyNone
    /\ environ.GEMINI_FAST_MODEL = PyNone
FairSpec == InitFair /\ [][Next]_vars /\ WF_vars(Next)

\* Two requests in one process, their steps interleaved in any order: one
\* with the default model and no limit, one with a model and a limit of its
\* own, for another country; two attempts or none, with both models
\* configured.
InitTwo ==
    /\ InitWith({1, 2})
    /\ environ.GEMINI_MAX_RETRIES \in {"0", "2"}
    /\ environ.GEMINI_STRONG_MODEL = "gemini-strong"
    /\ environ.GEMINI_FAST_MODEL = "gemini-fast"
    /\ country[1] = "japan" /\ model[1] = PyNone
    /\ country[2] = "kenya" /\ model[2] = "gemini-explicit"
SpecTwo == InitTwo /\ [][Next]_vars

\* ================================================================= claims
Done(r) == pc[r] = "done"

\* The request got past the imports: it ended at the 502 in the loop, at the
\* 502 after the loop or at the final return.
EndedPastImports(r) == Done(r) /\ result[r].line \in {147, 168, 177}

TransportFailure == HTTPException(BadGateway, TransportDetail)
UnparsableFailure == HTTPException(BadGateway, UnparsableDetail)

FailedWith(r, exc) == result[r].kind = "raise" /\ result[r].exc = exc

\* No call of generate_response raised and no parse gave a location.
EveryAttemptParsedEmpty(r) ==
    /\ gen_calls[r] >= 1
    /\ gen_raised[r] = 0
    /\ parse_calls[r] = gen_calls[r]
    /\ ~TruthyList(parsed_locations[r])

\* C1: with MAX_RETRIES >= 1, when every attempt's call returned and its text
\* parsed to no location (the parser returned [], None or raised), the request
\* made exactly MAX_RETRIES attempts and failed with the 502 "Failed to obtain
\* parsable response from Gemini."
C1_AllEmptyParsesFail ==
    \A r \in Reqs :
        (EndedPastImports(r) /\ MAX_RETRIES[r] >= 1 /\ EveryAttemptParsedEmpty(r))
            => /\ gen_calls[r] = MAX_RETRIES[r]
               /\ FailedWith(r, UnparsableFailure)

\* Every call of generate_response the request made raised.
EveryCallRaised(r) == gen_raised[r] = gen_calls[r]

\* C2 as stated, for every MAX_RETRIES: when every call of generate_response
\* raised, exactly MAX_RETRIES calls were made, the request failed with the
\* 502 "Upstream Gemini call failed repeatedly." and neither the parser nor
\* add_links_to_locations was called.
C2_EveryRetryBudget ==
    \A r \in Reqs :
        (EndedPastImports(r) /\ EveryCallRaised(r))
            => /\ gen_calls[r] = MAX_RETRIES[r]
               /\ FailedWith(r, TransportFailure)
               /\ parse_calls[r] = 0
               /\ recon_calls[r] = <<>>

\* C2 amended: the same for every MAX_RETRIES >= 1.
C2_PositiveRetryBudget ==
    \A r \in Reqs :
        (EndedPastImports(r) /\ EveryCallRaised(r) /\ MAX_RETRIES[r] >= 1)
            => /\ gen_calls[r] = MAX_RETRIES[r]
               /\ attempt[r] = MAX_RETRIES[r]
               /\ FailedWith(r, TransportFailure)
               /\ parse_calls[r] = 0
               /\ recon_calls[r] = <<>>

\* Three calls raised, with a budget of three or more.
C2_Witness ==
    \E r \in Reqs :
        /\ Done(r)
        /\ MAX_RETRIES[r] >= 3
        /\ gen_raised[r] = MAX_RETRIES[r]
        /\ FailedWith(r, TransportFailure)

\* C3: with MAX_RETRIES >= 1, a request whose last attempt's call raised
\* failed with the 502 of the transport failure, and a request in which no
\* attempt gave a location failed with a 502; neither returned a list.
C3_NoListWithoutParse ==
    \A r \in Reqs :
        (EndedPastImports(r) /\ MAX_RETRIES[r] >= 1)
            => /\ (gen_kind[r] = "raised" /\ attempt[r] = MAX_RETRIES[r])
                     => FailedWith(r, TransportFailure)
               /\ ~TruthyList(parsed_locations[r])
                     => /\ result[r].kind = "raise"
                        /\ result[r].exc.type = "HTTPException"
                        /\ result[r].exc.status_code = BadGateway

\* The model the claim names for attempt att.
ClaimedModel(att, explicit, strong, fast) ==
    IF Truthy(explicit) THEN explicit
    ELSE IF att >= 2 /\ Truthy(strong) THEN strong
    ELSE IF Truthy(fast) THEN fast
    ELSE NotPassed

\* C4: the model passed to generate_response on attempt i is the query
\* parameter when one is given; otherwise the fast model on attempt 1 and, on
\* attempts >= 2, the strong model when configured, else the fast model (no
\* model is passed when none of them is set).
C4_ModelOfAttempt ==
    \A r \in Reqs :
        gen_calls[r] >= 1
            => /\ attempt[r] = gen_calls[r]
               /\ last_call[r].model =
                      ClaimedModel(attempt[r], model[r],
                                   environ.GEMINI_STRONG_MODEL,
                                   environ.GEMINI_FAST_MODEL)

\* A second attempt that escalated from the fast to the strong model.
C4_Witness ==
    \E r \in Reqs :
        /\ attempt[r] = 2
        /\ ~Truthy(model[r])
        /\ Truthy(FAST_MODEL[r])
        /\ Truthy(STRONG_MODEL[r])
        /\ last_call[r].model = STRONG_MODEL[r]
        /\ last_call[r].model # FAST_MODEL[r]

\* C5: once an attempt's parse gave at least one location, the request makes
\* no further call of generate_response or of the parser and no sleep: the
\* step of that parse does not sleep and leaves the loop, and no later step
\* changes the attempt, the calls or the sleeps.
C5_StopsAtFirstLocations ==
    [][\A r \in Reqs :
          TruthyList(parsed_locations'[r])
              => /\ pc'[r] \in {"after", "done"}
                 /\ slept'[r] = slept[r]
                 /\ gen_calls'[r] = gen_calls[r]
                 /\ attempt'[r] = attempt[r]
                 /\ TruthyList(parsed_locations[r])
                       => /\ parse_calls'[r] = parse_calls[r]
                          /\ parsed_locations'[r] = parsed_locations[r]]_vars

\* A request that ended on the locations of an attempt before its last one,
\* fewer or more of them than there are links.
C5_Witness ==
    \E r \in Reqs :
        /\ Done(r)
        /\ TruthyList(parsed_locations[r])
        /\ attempt[r] < MAX_RETRIES[r]
        /\ Len(parsed_locations[r].items) # Len(links_list[r])

\* The search of request r raised exc.
SearchRaised(r, exc) ==
    /\ search_calls[r] # <<>>
    /\ search_calls[r][1].raised = exc

\* C6: when search_volunteer_links raises an error that is no HTTPException,
\* the request returns [] and calls neither generate_response nor the parser
\* nor add_links_to_locations; when it raises an HTTPException, the request
\* raises that same exception.
C6_SearchErrors ==
    \A r \in Reqs :
        /\ \A exc \in SearchOtherErrors :
              SearchRaised(r, exc)
                  => /\ Done(r)
                     /\ result[r].kind = "return"
                     /\ result[r].value = <<>>
                     /\ gen_calls[r] = 0
                     /\ parse_calls[r] = 0
                     /\ recon_calls[r] = <<>>
        /\ \A exc \in SearchHTTPErrors :
              SearchRaised(r, exc) => Done(r) /\ FailedWith(r, exc)

\* A search that raised an HTTPException, raised again by the request.
C6_Witness ==
    \E r \in Reqs, exc \in SearchHTTPErrors :
        SearchRaised(r, exc) /\ FailedWith(r, exc)

\* The search of request r returned, with no link.
SearchGaveNoLink(r) ==
    /\ search_calls[r] # <<>>
    /\ search_calls[r][1].raised = NoExc
    /\ links_list[r] = <<>>

\* C7: with MAX_RETRIES >= 1, a request whose search returned no link returns
\* [] and raises nothing, whatever generate_response and the parser did.
C7_NoLinksGiveEmptyList ==
    \A r \in Reqs :
        (EndedPastImports(r) /\ MAX_RETRIES[r] >= 1 /\ SearchGaveNoLink(r))
            => result[r].kind = "return" /\ result[r].value = <<>>

\* C8: when the search returned no link and generate_response answered the
\* empty JSON array, parsed to the empty list, generate_response is not called
\* again.
C8_OneCallForNoLinks ==
    [][\A r \in Reqs :
          (/\ SearchGaveNoLink(r)
           /\ pc[r] = "loop"
           /\ gen_kind[r] = "returned"
           /\ last_response_text[r] = ArrayText(<<>>)
           /\ parse_kind[r] = "list"
           /\ parsed_locations[r] = SomeList(<<>>))
              => gen_calls'[r] = gen_calls[r]]_vars

\* add_links_to_locations was called in request r and raised.
ReconcilerRaised(r) ==
    /\ recon_calls[r] # <<>>
    /\ recon_calls[r][1].raised

\* C9: when add_links_to_locations raises, the request does not fail: it
\* returns the locations parsed from the last attempt's text, the same ones
\* in the same order, without link or name.
C9_ReconcilerFailureKeepsParsed ==
    \A r \in Reqs :
        ReconcilerRaised(r)
            => /\ Done(r)
               /\ result[r].kind = "return"
               /\ result[r].value = parsed_locations[r].items
               /\ result[r].value = recon_calls[r][1].parsed

\* Two parsed locations returned after add_links_to_locations raised.
C9_Witness ==
    \E r \in Reqs :
        /\ ReconcilerRaised(r)
        /\ Len(result[r].value) = 2
        /\ result[r].value[1] # result[r].value[2]

\* C10: the list a request returns is no longer than its list of links.
C10_NoMoreLocationsThanLinks ==
    \A r \in Reqs :
        (Done(r) /\ result[r].kind = "return")
            => Len(result[r].value) <= Len(links_list[r])

\* The imports of request r ended in a failure.
ImportFailed(r) == import_outcome[r] \notin {"none", "ok"}

\* C11 as stated: every import failure (the call_gemini import raising or
\* exiting, generate_response not callable, the parser import raising) makes
\* the request fail, never return, and no call of generate_response is made.
C11_ImportFailuresRaise ==
    \A r \in Reqs :
        ImportFailed(r)
            => /\ Done(r)
               /\ result[r].kind = "raise"
               /\ gen_calls[r] = 0

\* C11 amended: no import failure is followed by a call of generate_response;
\* the request fails when the call_gemini import exits (SystemExit) or the
\* parser import raises, and returns [] when the call_gemini import raises an
\* Exception or generate_response is not callable.
C11_ImportFailuresByKind ==
    \A r \in Reqs :
        ImportFailed(r)
            => /\ Done(r)
               /\ gen_calls[r] = 0
               /\ parse_calls[r] = 0
               /\ recon_calls[r] = <<>>
               /\ import_outcome[r] = "cg_system_exit"
                     => FailedWith(r, OtherException("SystemExit"))
               /\ import_outcome[r] = "parser_import_fails"
                     => FailedWith(r, OtherException("ImportError"))
               /\ import_outcome[r] \in {"cg_exception", "generate_not_callable"}
                     => result[r].kind = "return" /\ result[r].value = <<>>

\* A request that returned [] because the call_gemini import raised.
C11_Witness ==
    \E r \in Reqs :
        /\ import_outcome[r] = "cg_exception"
        /\ search_calls[r] # <<>>
        /\ result[r].kind = "return"

\* Every request that was started has returned or raised.
AllEnded == \A r \in Reqs : pc[r] \in {"absent", "done"}

\* C12: when every collaborator call returns or raises, the request ends
\* (with a returned list or an error), and at no moment has it made more
\* calls of generate_response than MAX_RETRIES (none at all when MAX_RETRIES
\* is below 1).
C12_EndsWithinBudget ==
    /\ <>AllEnded
    /\ [](\A r \in Reqs :
             /\ gen_calls[r] = attempt[r]
             /\ gen_calls[r] = 0 \/ gen_calls[r] <= MAX_RETRIES[r])

\* A request that ended after using its whole budget of three calls or more.
C12_Witness ==
    \E r \in Reqs :
        /\ Done(r)
        /\ MAX_RETRIES[r] >= 3
        /\ gen_calls[r] = MAX_RETRIES[r]
        /\ result[r].kind = "return"

\* The request has read the links of its search and built its system prompt.
PromptBuilt(r) ==
    /\ search_calls[r] # <<>>
    /\ search_calls[r][1].raised = NoExc
    /\ result[r].line # 79

\* C13: two requests whose searches gave the same ordered links have the
\* same system prompt, the one built from those links alone, whatever their
\* country, limit and model, the configured models and the attempts they
\* are at.
C13_SameLinksSamePrompt ==
    \A r1 \in Reqs, r2 \in Reqs :
        PromptBuilt(r1) /\ PromptBuilt(r2) /\ links_list[r1] = links_list[r2]
            => /\ system_prompt[r1] = system_prompt[r2]
               /\ system_prompt[r1] = SystemPrompt(links_list[r1])
               /\ gen_calls[r1] > 0 /\ gen_calls[r2] > 0
                      => last_call[r1].system_prompt = last_call[r2].system_prompt

\* Two requests for different countries, limits and models, at different
\* attempts, whose searches gave the same links, have made their calls.
C13_Witness ==
    /\ PromptBuilt(1) /\ PromptBuilt(2)
    /\ links_list[1] = links_list[2] /\ Len(links_list[1]) = MaxLinks
    /\ country[1] # country[2] /\ limit[1] # limit[2] /\ model[1] # model[2]
    /\ attempt[1] = 1 /\ attempt[2] = 2
    /\ last_call[1].model # last_call[2].model

\* The step is the parse of request r's attempt, and the parser raised or
\* returned None.
ParserFailedStep(r) ==
    /\ pc[r] = "parse" /\ parse_calls'[r] = parse_calls[r] + 1
    /\ parse_kind'[r] \in {"raised", "none"}

\* C14: when the parser raises or returns None on the text of a call that
\* returned, nothing is raised: the attempt has parsed the empty list, the
\* request is back at the head of the loop, and it has slept the backoff of
\* an empty parse iff attempts remain.
C14_ParserFailureIsEmptyParse ==
    [][\A r \in Reqs : ParserFailedStep(r) =>
          /\ gen_kind[r] = "returned"
          /\ result'[r] = Pending
          /\ parsed_locations'[r] = SomeList(<<>>)
          /\ pc'[r] = "loop"
          /\ attempt'[r] = attempt[r]
          /\ slept'[r] = IF attempt[r] < MAX_RETRIES[r]
                         THEN Append(slept[r], 6 * attempt[r])
                         ELSE slept[r]]_vars

\* The parser returned None on the second attempt's text after an empty
\* parse of the first: the request slept after both and is going on.
C14_Witness ==
    /\ pc[1] = "loop" /\ attempt[1] = 2 /\ MAX_RETRIES[1] = 3
    /\ parse_calls[1] = 2 /\ parse_kind[1] = "none"
    /\ slept[1] = <<6, 12>>
    /\ parsed_locations[1] = SomeList(<<>>)

\* The step is the end of request r's call of generate_response in flight,
\* and the call raised.
TransportFailedStep(r) == gen_raised'[r] = gen_raised[r] + 1

\* C15: a call that raises on attempt i is followed by a sleep of 8 * i
\* tenths and the next attempt when i < MAX_RETRIES, and by the 502 of the
\* transport with no sleep when i is the last attempt.
C15_TransportBackoff ==
    [][\A r \in Reqs : TransportFailedStep(r) =>
          /\ pc[r] = "call" /\ attempt[r] = gen_calls[r]
          /\ attempt'[r] = attempt[r]
          /\ IF attempt[r] < MAX_RETRIES[r]
             THEN /\ slept'[r] = Append(slept[r], 8 * attempt[r])
                  /\ pc'[r] = "loop"
                  /\ result'[r] = Pending
             ELSE /\ slept'[r] = slept[r]
                  /\ pc'[r] = "done"
                  /\ FailedWith(r, TransportFailure)']_vars

\* Three calls raised: the request slept 0.8 and 1.6 seconds after the first
\* two and failed after the third without a sleep.
C15_Witness ==
    /\ Done(1) /\ FailedWith(1, TransportFailure)
    /\ MAX_RETRIES[1] = 3 /\ gen_raised[1] = 3
    /\ slept[1] = <<8, 16>>

\* The step is the parse of request r's attempt, and it gave no location.
EmptyParseStep(r) ==
    /\ pc[r] = "parse" /\ parse_calls'[r] = parse_calls[r] + 1
    /\ parsed_locations'[r].items = <<>>

\* The step is a call of generate_response by request r that follows an
\* attempt whose parse gave no location.
CallAfterEmptyParseStep(r) ==
    /\ gen_calls'[r] = gen_calls[r] + 1
    /\ gen_kind[r] = "returned"

\* C16: an empty parse on attempt i is followed by a sleep of 6 * i tenths
\* when i < MAX_RETRIES and by no sleep when i is the last attempt; the call
\* after the sleep is attempt i + 1 with the model of attempt i + 1.
C16_ParseBackoff ==
    [][\A r \in Reqs :
          /\ EmptyParseStep(r) =>
                /\ attempt'[r] = attempt[r]
                /\ slept'[r] = IF attempt[r] < MAX_RETRIES[r]
                               THEN Append(slept[r], 6 * attempt[r])
                               ELSE slept[r]
          /\ CallAfterEmptyParseStep(r) =>
                /\ attempt[r] < MAX_RETRIES[r]
                /\ slept[r] # <<>>
                /\ slept[r][Len(slept[r])] = 6 * attempt[r]
                /\ attempt'[r] = attempt[r] + 1
                /\ last_call'[r].model =
                       ClaimedModel(attempt[r] + 1, model[r],
                                    environ.GEMINI_STRONG_MODEL,
                                    environ.GEMINI_FAST_MODEL)]_vars

\* Two empty parses, each followed by its sleep, and a third attempt that
\* called the strong model; its parse is empty too and no sleep follows.
C16_Witness ==
    /\ pc[1] = "loop" /\ attempt[1] = 3 /\ MAX_RETRIES[1] = 3
    /\ parse_calls[1] = 3 /\ parsed_locations[1] = SomeList(<<>>)
    /\ slept[1] = <<6, 12>>
    /\ model[1] = PyNone /\ model_to_use[1] = "gemini-strong"

\* C17: every call of generate_response of a request has the system prompt
\* built from the request's links and an empty user prompt, the same from
\* one attempt to the next; once built, the prompt and the links are never
\* changed, and the reconciler gets those links.
C17_PromptAndLinksFixed ==
    /\ [](\A r \in Reqs :
             /\ gen_calls[r] > 0 =>
                   /\ last_call[r].system_prompt = SystemPrompt(links_list[r])
                   /\ last_call[r].prompt = ""
             /\ recon_calls[r] # <<>> =>
                   recon_calls[r][1].links = links_list[r])
    /\ [][\A r \in Reqs :
             /\ PromptBuilt(r) =>
                   /\ system_prompt'[r] = system_prompt[r]
                   /\ links_list'[r] = links_list[r]
             /\ gen_calls[r] > 0 /\ gen_calls'[r] = gen_calls[r] + 1 =>
                   /\ last_call'[r].system_prompt = last_call[r].system_prompt
                   /\ last_call'[r].prompt = last_call[r].prompt]_vars

\* After an empty parse and a call that raised, the third attempt called the
\* strong model with the prompt of the first, and the reconciler got the
\* links of the search.
C17_Witness ==
    /\ Done(1) /\ gen_calls[1] = 3 /\ gen_raised[1] = 1 /\ parse_calls[1] = 2
    /\ model[1] = PyNone /\ last_call[1].model = "gemini-strong"
    /\ last_response_text[1] # PyNone
    /\ Len(links_list[1]) = MaxLinks
    /\ recon_calls[1] # <<>>

\* All that the handler holds for request r, and the calls made for it.
ReqState(r) ==
    <<pc[r], country[r], limit[r], model[r], links_list[r], system_prompt[r],
      MAX_RETRIES[r], STRONG_MODEL[r], FAST_MODEL[r], attempt[r],
      model_to_use[r], gemini_text_str[r], last_response_text[r],
      parsed_locations[r], result[r], search_calls[r], import_outcome[r],
      gen_calls[r], gen_raised[r], gen_kind[r], last_call[r], parse_calls[r],
      parse_kind[r], slept[r], recon_calls[r]>>

\* C18: with two requests interleaved in any order, a step changes the state
\* of one request only and never the environment; each request counts its
\* own calls, calls the model that its own parameter and attempt give, hands
\* its own parsed locations and links to the reconciler and returns what
\* comes of them.
C18_RequestsIndependent ==
    /\ [][/\ environ' = environ
          /\ \E r \in Reqs :
                \A o \in Reqs \ {r} : ReqState(o)' = ReqState(o)]_vars
    /\ [](\A r \in Reqs :
             /\ attempt[r] = gen_calls[r]
             /\ gen_calls[r] > 0 =>
                   /\ gen_calls[r] <= MAX_RETRIES[r]
                   /\ last_call[r].system_prompt = SystemPrompt(links_list[r])
                   /\ last_call[r].model =
                          ClaimedModel(attempt[r], model[r],
                                       environ.GEMINI_STRONG_MODEL,
                                       environ.GEMINI_FAST_MODEL)
             /\ recon_calls[r] # <<>> =>
                   /\ recon_calls[r][1].parsed = parsed_locations[r].items
                   /\ recon_calls[r][1].links = links_list[r]
                   /\ result[r].value \in
                          {AddLinksToLocations(parsed_locations[r].items,
                                               links_list[r]),
                           Fallback(parsed_locations[r])})

\* Two calls in flight at once: the first request waits for the answer of
\* its second attempt, made to the strong model after an empty parse, while
\* the second waits for the answer of its first, made to the model it named.
C18_Witness ==
    /\ pc[1] = "call" /\ pc[2] = "call"
    /\ attempt[1] = 2 /\ attempt[2] = 1
    /\ last_call[1].model = "gemini-strong"
    /\ last_call[2].model = "gemini-explicit"
    /\ links_list[1] # links_list[2]
    /\ parse_calls[1] = 1 /\ slept[1] = <<6>>
    /\ gemini_text_str[2] = PyNone /\ slept[2] = <<>>

\* C19: of the requests that reached the loop and ended, those that fail
\* with the 502 of the unparsable response are those whose MAX_RETRIES is
\* <= 0, and those whose parser was never called and whose last call did not
\* fail; they made no call of generate_response after their one search. No
\* other request fails with that 502.
C19_UnparsableIffNoBudget ==
    \A r \in Reqs :
        /\ Done(r) /\ import_outcome[r] = "ok" =>
              /\ FailedWith(r, UnparsableFailure) <=> MAX_RETRIES[r] <= 0
              /\ FailedWith(r, UnparsableFailure) <=>
                     parse_calls[r] = 0 /\ ~FailedWith(r, TransportFailure)
        /\ FailedWith(r, UnparsableFailure) =>
              /\ Done(r) /\ import_outcome[r] = "ok"
              /\ result[r].line = 168
              /\ gen_calls[r] = 0
              /\ Len(search_calls[r]) = 1

\* With GEMINI_MAX_RETRIES = -1 the request searched, imported its modules
\* and failed with the 502 of the unparsable response.
C19_Witness ==
    /\ Done(1) /\ FailedWith(1, UnparsableFailure)
    /\ environ.GEMINI_MAX_RETRIES = "-1" /\ MAX_RETRIES[1] = 0 - 1
    /\ search_calls[1] # <<>> /\ links_list[1] # <<>>
    /\ gen_calls[1] = 0 /\ parse_calls[1] = 0

\* The calls of generate_response of request r that returned: those made,
\* less those that raised and the one in flight.
GenReturned(r) ==
    gen_calls[r] - gen_raised[r] - (IF pc[r] = "call" THEN 1 ELSE 0)

\* C20: a request searches once, before anything else; it parses once after
\* each call of generate_response that returned and never after one that
\* raised; it reconciles at most once, after its last call, which returned,
\* with the locations parsed from that call's text, and never when it fails
\* with a 502.
C20_CallOrder ==
    /\ [](\A r \in Reqs :
             /\ Len(search_calls[r]) = IF pc[r] \in {"absent", "search"}
                                       THEN 0 ELSE 1
             /\ import_outcome[r] # "none" \/ gen_calls[r] > 0
                   => Len(search_calls[r]) = 1
             /\ parse_calls[r] =
                    GenReturned(r) - (IF pc[r] = "parse" THEN 1 ELSE 0)
             /\ pc[r] = "parse" => gen_kind[r] = "returned"
             /\ Len(recon_calls[r]) <= 1
             /\ recon_calls[r] # <<>> =>
                   /\ Done(r) /\ result[r].kind = "return"
                   /\ gen_calls[r] > 0 /\ gen_kind[r] = "returned"
                   /\ parse_calls[r] = GenReturned(r)
                   /\ recon_calls[r][1].parsed = parsed_locations[r].items
                   /\ \E o \in ParseOutcomes(last_response_text[r]) :
                          ParsedValue(o).items = recon_calls[r][1].parsed
             /\ FailedWith(r, TransportFailure)
                  \/ FailedWith(r, UnparsableFailure)
                   => recon_calls[r] = <<>>)
    /\ [][\A r \in Reqs :
             /\ parse_calls'[r] # parse_calls[r] =>
                   /\ parse_calls'[r] = parse_calls[r] + 1
                   /\ gen_kind[r] = "returned" /\ gen_calls'[r] = gen_calls[r]
             /\ gen_raised'[r] # gen_raised[r] => pc'[r] # "parse"
             /\ recon_calls[r] # <<>> =>
                   /\ gen_calls'[r] = gen_calls[r]
                   /\ parse_calls'[r] = parse_calls[r]
                   /\ recon_calls'[r] = recon_calls[r]]_vars

\* A call that raised, a call whose parse was empty and a call whose parse
\* gave locations: two parses, then the reconciler with those locations.
C20_Witness ==
    /\ Done(1) /\ result[1].kind = "return"
    /\ gen_calls[1] = 3 /\ gen_raised[1] = 1 /\ parse_calls[1] = 2
    /\ slept[1] = <<8, 12>>
    /\ Len(recon_calls[1]) = 1
    /\ Len(recon_calls[1][1].parsed) = MaxParsed
    /\ ~recon_calls[1][1].raised

====
